---- MODULE Spec2Model ----
(***************************************************************************)
(* A model of the Atlas agent runtime (crates/atlas-agent):                *)
(*   - the memory log of AgentStateManager (state.rs),                     *)
(*   - the key/value state and task records behind its RwLock (state.rs,   *)
(*     lib.rs),                                                            *)
(*   - Agent::execute_task / handle_event (lib.rs),                        *)
(*   - ToolManager and ToolPipeline (tool.rs),                             *)
(*   - AgentBuilder::build, Agent::new and Config::validate (lib.rs).      *)
(* Every asynchronous operation is split at its await points (lock         *)
(* acquisition, the tool body); the section run under a lock is one step.  *)
(* An argument that a call first reads under its lock is drawn in the step *)
(* that takes the lock: a caller waiting for the lock has not used it yet. *)
(***************************************************************************)
EXTENDS Integers, Sequences, FiniteSets, Bags, TLC

\* ---------------------------------------------------------------- bounds
NumProcs == 2       \* concurrent callers
MaxAdds == 3        \* MemoryEntry values constructed in one behaviour
MaxCapacity == 2    \* largest MemoryConfig.capacity tried
MaxFileLen == 2     \* longest entry array found in the persist file
NumTaskIds == 2     \* distinct task ids callers use
MaxMiddleware == 3  \* longest middleware chain built
MaxBuilderTools == 2 \* most AgentBuilder::tool calls before build

Procs == 1..NumProcs
NoProc == 0

VARIABLES
    pc,             \* pc[p]: where caller p stands inside its current call
    call,           \* call[p]: the call p is executing, with its arguments and locals
    ret,            \* the return of the step just taken: who returned what, if any
    memory_config,  \* AgentStateManager.memory_config
    memory,         \* AgentStateManager.memory: Vec<MemoryEntry>
    memWriter,      \* holder of memory's write lock, or NoProc
    disk,           \* the file at persist_path
    nextId,         \* number of the next Uuid::new_v4()
    clock,          \* chrono::Utc::now()
    addLog,         \* history: ids pushed since the store was last empty
    pristine,       \* history: no load_memory replaced the log since then
    stMemory,       \* State.memory: HashMap<String, Value>
    tasks,          \* State.tasks: HashMap<Uuid, TaskState>
    stWriter,       \* holder of the state's write lock, or NoProc
    committed,      \* history: State.memory after the whole updates finished so far
    tools,          \* ToolManager.tools: name -> tool implementation
    configs,        \* ToolManager.configs: name -> ToolConfig
    toolsReaders,   \* holders of a read lock on the Agent's ToolManager
    middleware,     \* ToolPipeline.middleware
    pipeLog         \* history: the middleware and tool events of the last pipeline run

memVars == <<memory_config, memory, memWriter, disk, nextId, clock, addLog, pristine>>
stateVars == <<stMemory, tasks, stWriter, committed>>
regVars == <<tools, configs, toolsReaders>>
pipeVars == <<middleware, pipeLog>>
procVars == <<pc, call, ret>>
vars == <<pc, call, ret, memory_config, memory, memWriter, disk, nextId, clock,
          addLog, pristine, stMemory, tasks, stWriter, committed, tools, configs,
          toolsReaders, middleware, pipeLog>>

\* ------------------------------------------------------------ small helpers
Range(f) == {f[x] : x \in DOMAIN f}

NoCall == [op |-> "none"]
NoRet == [proc |-> NoProc, val |-> [op |-> "none"]]

Idle(p) == pc[p] = "idle"

\* p returns r from its call.
Return(p, r) ==
    /\ pc' = [pc EXCEPT ![p] = "idle"]
    /\ call' = [call EXCEPT ![p] = NoCall]
    /\ ret' = [proc |-> p, val |-> r]

\* p moves to label l inside call c.
Goto(p, l, c) ==
    /\ pc' = [pc EXCEPT ![p] = l]
    /\ call' = [call EXCEPT ![p] = c]
    /\ ret' = NoRet

\* Option<T>: None is the empty sequence, Some(v) is <<v>>.
None == <<>>
Some(v) == <<v>>

\* HashMap: a function on the set of its keys.
EmptyMap == [k \in {} |-> 0]
MapInsertKeepsOld(m, k, v) ==
    [x \in (DOMAIN m) \cup {k} |-> IF x \in DOMAIN m THEN m[x] ELSE v]
MapInsertAlone(m, k, v) == [x \in {k} |-> v]
MapInsert(m, k, v) == [x \in (DOMAIN m) \cup {k} |-> IF x = k THEN v ELSE m[x]]

\* ---------------------------------------------------------------- memory log
DataValues == {"entry1", "entry2"}

\* MemoryEntry::new: a fresh id and the current time (metadata carries no behaviour
\* and is left out).
MemoryEntryNew(data) == [id |-> nextId, timestamp |-> clock, data |-> data]

\* The entries a persist file may hold on start: written by an earlier run or by hand.
FileEntry(i) == [id |-> 0 - i, timestamp |-> 0 - (MaxFileLen + 1 - i), data |-> "entry1"]
FileEntries(n) == [i \in 1..n |-> FileEntry(i)]

NoFile == [exists |-> FALSE, entries |-> <<>>]
FileOf(entries) == [exists |-> TRUE, entries |-> entries]

MemoryConfigs ==
    [capacity : 0..MaxCapacity, persistent : BOOLEAN, persist_path : {"none", "some"}]

\* memory.write().await / memory.read().await can be granted.
MemWriteFree == memWriter = NoProc
MemReadFree == memWriter = NoProc

\* if memory.len() >= capacity { memory.remove(0); }   (Vec::remove(0) of an empty
\* Vec panics: the callers test EvictionPanics first)
EvictsOnAdd(mem) == Len(mem) >= memory_config.capacity
EvictionPanics(mem) == EvictsOnAdd(mem) /\ Len(mem) = 0
EnforceCapacityDropNewest(mem) ==
    IF EvictsOnAdd(mem) THEN SubSeq(mem, 1, Len(mem) - 1) ELSE mem
EnforceCapacity(mem) == IF EvictsOnAdd(mem) THEN Tail(mem) ELSE mem

\* memory.iter().find(|e| e.id == id).cloned()
FindEntryHeadOnly(mem, id) ==
    IF mem # <<>> /\ Head(mem).id = id THEN <<Head(mem)>> ELSE <<>>
RECURSIVE FindEntry(_, _)
FindEntry(mem, id) ==
    IF mem = <<>> THEN <<>>
    ELSE IF Head(mem).id = id THEN <<Head(mem)>>
    ELSE FindEntry(Tail(mem), id)

\* persist_memory is entered with the write lock held by add_memory / clear_memory.
PersistsWhenFlagged == memory_config.persistent
PersistsToFile == memory_config.persistent /\ memory_config.persist_path = "some"

\* A step of the memory log leaves the other components alone.
MemReturn(p, r) == Return(p, r) /\ UNCHANGED <<stateVars, regVars, pipeVars>>
MemGoto(p, l, c) == Goto(p, l, c) /\ UNCHANGED <<stateVars, regVars, pipeVars>>

\* add_memory, up to memory.write().await: the entry is constructed first.
AddMemoryCall(p, data) ==
    /\ Idle(p)
    /\ nextId <= MaxAdds
    /\ MemGoto(p, "add_wait", [op |-> "add_memory", entry |-> MemoryEntryNew(data)])
    /\ nextId' = nextId + 1
    /\ clock' = clock + 1
    /\ UNCHANGED <<memory_config, memory, memWriter, disk, addLog, pristine>>

\* add_memory with the write lock granted: evict, push, then persist or return.
AddMemoryLocked(p) ==
    /\ pc[p] = "add_wait"
    /\ MemWriteFree
    /\ IF EvictionPanics(memory)
       THEN \* the task unwinds; the guard is dropped, nothing was pushed
            /\ MemReturn(p, [op |-> "add_memory", kind |-> "panic", id |-> call[p].entry.id])
            /\ UNCHANGED memVars
       ELSE /\ memory' = Append(EnforceCapacity(memory), call[p].entry)
            /\ addLog' = Append(addLog, call[p].entry.id)
            /\ IF PersistsToFile
               THEN \* persist_memory().await, the write guard still alive
                    /\ memWriter' = p
                    /\ MemGoto(p, "persist_wait", call[p])
               ELSE /\ memWriter' = NoProc
                    /\ MemReturn(p, [op |-> "add_memory", kind |-> "ok", id |-> call[p].entry.id])
            /\ UNCHANGED <<memory_config, disk, nextId, clock, pristine>>

\* clear_memory, up to memory.write().await.
ClearMemoryCall(p) ==
    /\ Idle(p)
    /\ MemGoto(p, "clear_wait", [op |-> "clear_memory"])
    /\ UNCHANGED memVars

\* memory.clear()
ClearedKeepsNewest(mem) == IF mem = <<>> THEN mem ELSE <<mem[Len(mem)]>>
Cleared(mem) == <<>>

ClearMemoryLocked(p) ==
    /\ pc[p] = "clear_wait"
    /\ MemWriteFree
    /\ memory' = Cleared(memory)
    /\ addLog' = <<>>
    /\ pristine' = TRUE
    /\ IF PersistsToFile
       THEN /\ memWriter' = p
            /\ MemGoto(p, "persist_wait", call[p])
       ELSE /\ memWriter' = NoProc
            /\ MemReturn(p, [op |-> "clear_memory", kind |-> "ok"])
    /\ UNCHANGED <<memory_config, disk, nextId, clock>>

\* get_memory / list_memory, up to memory.read().await.
GetMemoryCall(p) ==
    /\ Idle(p)
    /\ MemGoto(p, "read_wait", [op |-> "get_memory"])
    /\ UNCHANGED memVars

ListMemoryCall(p) ==
    /\ Idle(p)
    /\ MemGoto(p, "read_wait", [op |-> "list_memory"])
    /\ UNCHANGED memVars

\* A section run under memory.read(): the bodies of get_memory (asked for id) and
\* list_memory, and the body of persist_memory (serialize the log, overwrite the
\* file), whose caller returns Ok afterwards and drops its guards.
MemReadLocked(p, id) ==
    /\ pc[p] \in {"read_wait", "persist_wait"}
    /\ MemReadFree
    /\ IF pc[p] = "persist_wait"
       THEN /\ memWriter' = NoProc
            /\ \/ /\ disk' = FileOf(memory)
                  /\ MemReturn(p, IF call[p].op = "add_memory"
                               THEN [op |-> "add_memory", kind |-> "ok",
                                     id |-> call[p].entry.id]
                               ELSE [op |-> "clear_memory", kind |-> "ok"])
               \/ \* tokio::fs::write fails: `?` hands the io::Error on as anyhow::Error
                  /\ disk' = disk
                  /\ MemReturn(p, [op |-> call[p].op, kind |-> "io::Error"])
       ELSE /\ MemReturn(p, IF call[p].op = "get_memory"
                         THEN [op |-> "get_memory", kind |-> "ok", id |-> id,
                               entries |-> FindEntry(memory, id)]
                         ELSE [op |-> "list_memory", kind |-> "ok", entries |-> memory])
            /\ UNCHANGED <<disk, memWriter>>
    /\ UNCHANGED <<memory_config, memory, nextId, clock, addLog, pristine>>

\* serde_json::to_string(&e.data) of a JSON string value: the text between quotes
\* (the data values tried need no escapes).
ToJsonTextRaw(data) == data
ToJsonText(data) == "\"" \o data \o "\""

\* str::contains(query)
Contains(text, query) ==
    \E i \in 1..(Len(text) - Len(query) + 1) : SubSeq(text, i, i + Len(query) - 1) = query

\* memory.iter().filter(|e| to_string(&e.data).unwrap_or_default().contains(query))
\*       .cloned().collect()
SearchEntries(mem, query) ==
    SelectSeq(mem, LAMBDA e : Contains(ToJsonText(e.data), query))

\* Queries a caller may search for.
Queries == {"", "entry", "2", "\"entry1\"", "test"}

\* search_memory, up to memory.read().await.
SearchMemoryCall(p) ==
    /\ Idle(p)
    /\ MemGoto(p, "search_wait", [op |-> "search_memory"])
    /\ UNCHANGED memVars

\* search_memory(query) with a read lock granted.
SearchMemoryLocked(p, query) ==
    /\ pc[p] = "search_wait"
    /\ MemReadFree
    /\ MemReturn(p, [op |-> "search_memory", kind |-> "ok", query |-> query,
                     entries |-> SearchEntries(memory, query)])
    /\ UNCHANGED memVars

\* load_memory, up to memory.write().await: the file is read and parsed first.
LoadMemoryCall(p) ==
    /\ Idle(p)
    /\ IF memory_config.persist_path = "some" /\ disk.exists
       THEN MemGoto(p, "load_wait", [op |-> "load_memory", entries |-> disk.entries])
       ELSE MemReturn(p, [op |-> "load_memory", kind |-> "ok"])
    /\ UNCHANGED memVars

\* A load that keeps the previous log in front of the entries it read.
LoadMemoryAppends(p) ==
    /\ pc[p] = "load_wait"
    /\ MemWriteFree
    /\ memory' = memory \o call[p].entries
    /\ pristine' = FALSE
    /\ MemReturn(p, [op |-> "load_memory", kind |-> "ok"])
    /\ UNCHANGED <<memory_config, memWriter, disk, nextId, clock, addLog>>

\* *memory = entries;
LoadMemoryLocked(p) ==
    /\ pc[p] = "load_wait"
    /\ MemWriteFree
    /\ memory' = call[p].entries
    /\ pristine' = FALSE
    /\ MemReturn(p, [op |-> "load_memory", kind |-> "ok"])
    /\ UNCHANGED <<memory_config, memWriter, disk, nextId, clock, addLog>>

\* Ids a caller may ask get_memory for.
EntryIds == (1..MaxAdds) \cup {0 - i : i \in 1..MaxFileLen}

InitProcs ==
    /\ pc = [p \in Procs |-> "idle"]
    /\ call = [p \in Procs |-> NoCall]
    /\ ret = NoRet

\* AgentStateManager::new: an empty log; the file is whatever the path holds: nothing,
\* an empty array or the longest array tried.
InitMemory ==
    /\ memory_config \in MemoryConfigs
    /\ memory = <<>>
    /\ memWriter = NoProc
    /\ disk \in IF memory_config.persist_path = "some"
                THEN {NoFile} \cup {FileOf(FileEntries(n)) : n \in {0, MaxFileLen}}
                ELSE {NoFile}
    /\ nextId = 1
    /\ clock = 1
    /\ addLog = <<>>
    /\ pristine = TRUE

\* The steps of caller p that continue a call already issued on the memory log.
MemStep(p) ==
    \/ AddMemoryLocked(p)
    \/ ClearMemoryLocked(p)
    \/ \E id \in EntryIds : MemReadLocked(p, id)
    \/ \E q \in Queries : SearchMemoryLocked(p, q)
    \/ LoadMemoryLocked(p)

NextMem ==
    \E p \in Procs :
        \/ \E d \in DataValues : AddMemoryCall(p, d)
        \/ ClearMemoryCall(p)
        \/ GetMemoryCall(p)
        \/ ListMemoryCall(p)
        \/ SearchMemoryCall(p)
        \/ LoadMemoryCall(p)
        \/ MemStep(p)

\* The memory log left unused: MemoryConfig::default() but for the capacity.
InitMemoryOff ==
    /\ memory_config = [capacity |-> MaxCapacity, persistent |-> FALSE, persist_path |-> "none"]
    /\ memory = <<>>
    /\ memWriter = NoProc
    /\ disk = NoFile
    /\ nextId = 1
    /\ clock = 1
    /\ addLog = <<>>
    /\ pristine = TRUE

\* State::default(), behind a fresh RwLock.
InitState ==
    /\ stMemory = EmptyMap
    /\ tasks = EmptyMap
    /\ stWriter = NoProc
    /\ committed = EmptyMap

\* ToolManager::new().
InitRegistry ==
    /\ tools = EmptyMap
    /\ configs = EmptyMap
    /\ toolsReaders = {}

\* ToolPipeline::new(manager): no middleware yet.
InitPipeline ==
    /\ middleware = <<>>
    /\ pipeLog = <<>>

InitMem == InitProcs /\ InitMemory /\ InitState /\ InitRegistry /\ InitPipeline

SpecMem == InitMem /\ [][NextMem]_vars

\* ------------------------------------------------------- tools and their results
\* Tool implementations a caller may supply: TestTool of the crate's tests and
\* CalculatorTool of examples/simple_agent.rs.
ToolImpls == {"TestTool", "CalculatorTool"}
Description(tool) ==
    IF tool = "TestTool" THEN "A test tool" ELSE "A simple calculator tool"

ToolNames == {"test_tool", "calculator", "weather"}
NoName == "(absent)"

\* Execution parameters: the "tool" key (or none) and the calculator's operands for
\* operation "divide".
Params ==
    {ps \in [tool : ToolNames \cup {NoName}, a : {15}, b : {0, 3}] :
        ps.tool # "calculator" => ps.b = 3}

Ok(v) == [ok |-> TRUE, value |-> v]
Err(kind, msg) == [ok |-> FALSE, error |-> [kind |-> kind, msg |-> msg]]

\* The Display text of an error (error.rs: thiserror's #[error("...")] per kind; an
\* anyhow error raised by a tool prints its message).
ErrorToStringEmpty(e) == ""
ErrorToString(e) ==
    CASE e.kind = "InvalidRequest" -> "Invalid request: " \o e.msg
      [] e.kind = "ToolNotFound" -> "Tool not found: " \o e.msg
      [] e.kind = "ToolExecutionFailed" -> "Tool execution failed: " \o e.msg
      [] OTHER -> e.msg

\* tool.execute(params): TestTool::execute and CalculatorTool::execute ("divide").
ToolExecute(tool, params) ==
    IF tool = "TestTool" THEN Ok([success |-> TRUE])
    ELSE IF params.b = 0 THEN Err("anyhow", "Division by zero")
    ELSE Ok([result |-> params.a \div params.b])

\* ToolManager::get: self.tools.get(name).cloned().
ToolManagerGetFallsBack(ts, name) ==
    IF name \in DOMAIN ts THEN Some(ts[name]) ELSE Some("TestTool")
ToolManagerGet(ts, name) == IF name \in DOMAIN ts THEN Some(ts[name]) ELSE None

\* ------------------------------------------------------------ state and tasks
Keys == {"k1", "k2"}
Values == {1, 2}

\* Metadata values passed to update_state / carried as an event payload.
Payloads == UNION {[ks -> Values] : ks \in SUBSET Keys}

TaskIds == 1..NumTaskIds

\* state.write().await / state.read().await can be granted.
StateWriteIgnoresHolder == TRUE
StateWriteBehindMemoryLock == stWriter = NoProc /\ memWriter = NoProc
StateWriteFree == stWriter = NoProc
StateReadIgnoresWriter == TRUE
StateReadFree == stWriter = NoProc

\* State::update applied whole: every key of data inserted over mem.
MergeAll(mem, data) ==
    [k \in (DOMAIN mem) \cup (DOMAIN data) |-> IF k \in DOMAIN data THEN data[k] ELSE mem[k]]

\* State::snapshot: Metadata::from(self.memory.clone()).
SnapshotWithTasks(mem) == mem @@ tasks
Snapshot(mem) == mem

StReturn(p, r) == Return(p, r) /\ UNCHANGED <<memVars, regVars, pipeVars>>
StGoto(p, l, c) == Goto(p, l, c) /\ UNCHANGED <<memVars, regVars, pipeVars>>

\* update_state, up to state.write().await.
UpdateStateCall(p) ==
    /\ Idle(p)
    /\ StGoto(p, "update_wait", [op |-> "update_state"])
    /\ UNCHANGED stateVars

\* update_state / handle_event with the write lock granted: State::update(data)
\* starts.
UpdateLocked(p, data) ==
    /\ pc[p] = "update_wait"
    /\ StateWriteFree
    /\ stWriter' = p
    /\ StGoto(p, "update_merge", [op |-> call[p].op, data |-> data, todo |-> DOMAIN data])
    /\ UNCHANGED <<stMemory, tasks, committed>>

\* State::update: one turn of `for (key, value) in data { memory.insert(key, value) }`
\* (a HashMap yields its keys in any order), or its end: Ok(()) and the guard dropped.
UpdateMerge(p) ==
    /\ pc[p] = "update_merge"
    /\ IF call[p].todo = {}
       THEN /\ stWriter' = NoProc
            /\ committed' = MergeAll(committed, call[p].data)
            /\ StReturn(p, [op |-> call[p].op, kind |-> "ok"])
            /\ UNCHANGED <<stMemory, tasks>>
       ELSE \E k \in call[p].todo :
            /\ stMemory' = MapInsert(stMemory, k, call[p].data[k])
            /\ StGoto(p, "update_merge", [call[p] EXCEPT !.todo = @ \ {k}])
            /\ UNCHANGED <<tasks, stWriter, committed>>

\* snapshot, up to state.read().await.
SnapshotCall(p) ==
    /\ Idle(p)
    /\ StGoto(p, "snapshot_wait", [op |-> "snapshot"])
    /\ UNCHANGED stateVars

\* snapshot with a read lock granted.
SnapshotLocked(p) ==
    /\ pc[p] = "snapshot_wait"
    /\ StateReadFree
    /\ StReturn(p, [op |-> "snapshot", kind |-> "ok", value |-> Snapshot(stMemory)])
    /\ UNCHANGED stateVars

NextState ==
    \E p \in Procs :
        \/ UpdateStateCall(p)
        \/ \E d \in Payloads : UpdateLocked(p, d)
        \/ UpdateMerge(p)
        \/ SnapshotCall(p)
        \/ SnapshotLocked(p)

InitStateManager == InitProcs /\ InitMemoryOff /\ InitState /\ InitRegistry /\ InitPipeline

SpecState == InitStateManager /\ [][NextState]_vars

\* ------------------------------------------------------------ the task tracker
\* TaskStatus, and the TaskState values a caller hands to update_task.
TaskStatuses == {"Pending", "Running", "Completed", "Failed"}
TaskOutcome(status) ==
    [result |-> IF status = "Completed" THEN Some(EmptyMap) ELSE None,
     error |-> IF status = "Failed" THEN Some("Tool not found: weather") ELSE None]
TaskStates ==
    {[id |-> id, status |-> s, result |-> TaskOutcome(s).result,
      error |-> TaskOutcome(s).error] : id \in TaskIds, s \in TaskStatuses}

\* HashMap::remove.
MapRemove(m, k) == [x \in (DOMAIN m) \ {k} |-> m[x]]

\* An update that refuses to replace a record that is already Completed or Failed.
UpdateTaskKeepsTerminal(ts, task) ==
    IF task.id \in DOMAIN ts /\ ts[task.id].status \in {"Completed", "Failed"}
    THEN ts
    ELSE MapInsert(ts, task.id, task)
\* state.tasks.insert(task.id, task)
UpdateTaskInsert(ts, task) == MapInsert(ts, task.id, task)

\* state.tasks.get(&id).cloned()
GetTaskCloned(ts, id) == IF id \in DOMAIN ts THEN Some(ts[id]) ELSE None

\* update_task, up to state.write().await.
UpdateTaskCall(p, task) ==
    /\ Idle(p)
    /\ StGoto(p, "update_task_wait", [op |-> "update_task", task |-> task])
    /\ UNCHANGED stateVars

\* update_task with the write lock granted; `before` is history, not returned.
UpdateTaskLocked(p) ==
    /\ pc[p] = "update_task_wait"
    /\ StateWriteFree
    /\ tasks' = UpdateTaskInsert(tasks, call[p].task)
    /\ StReturn(p, [op |-> "update_task", kind |-> "ok", task |-> call[p].task,
                    before |-> GetTaskCloned(tasks, call[p].task.id)])
    /\ UNCHANGED <<stMemory, stWriter, committed>>

\* get_task, up to state.read().await.
GetTaskCall(p, id) ==
    /\ Idle(p)
    /\ StGoto(p, "get_task_wait", [op |-> "get_task", id |-> id])
    /\ UNCHANGED stateVars

\* get_task with a read lock granted.
GetTaskLocked(p) ==
    /\ pc[p] = "get_task_wait"
    /\ StateReadFree
    /\ StReturn(p, [op |-> "get_task", kind |-> "ok", id |-> call[p].id,
                    value |-> GetTaskCloned(tasks, call[p].id)])
    /\ UNCHANGED stateVars

\* remove_task, up to state.write().await.
RemoveTaskCall(p, id) ==
    /\ Idle(p)
    /\ StGoto(p, "remove_task_wait", [op |-> "remove_task", id |-> id])
    /\ UNCHANGED stateVars

\* remove_task with the write lock granted; `before` is history, not returned.
RemoveTaskLocked(p) ==
    /\ pc[p] = "remove_task_wait"
    /\ StateWriteFree
    /\ tasks' = MapRemove(tasks, call[p].id)
    /\ StReturn(p, [op |-> "remove_task", kind |-> "ok", id |-> call[p].id,
                    before |-> GetTaskCloned(tasks, call[p].id)])
    /\ UNCHANGED <<stMemory, stWriter, committed>>

TrackerStep(p) ==
    \/ \E task \in TaskStates : UpdateTaskCall(p, task)
    \/ UpdateTaskLocked(p)
    \/ \E id \in TaskIds : GetTaskCall(p, id)
    \/ GetTaskLocked(p)
    \/ \E id \in TaskIds : RemoveTaskCall(p, id)
    \/ RemoveTaskLocked(p)

\* The tracker beside update_state, which fills the memory map of the same State.
NextTracker ==
    \E p \in Procs :
        \/ TrackerStep(p)
        \/ UpdateStateCall(p)
        \/ \E d \in Payloads : UpdateLocked(p, d)
        \/ UpdateMerge(p)

SpecTracker == InitStateManager /\ [][NextTracker]_vars

\* -------------------------------------------- the memory log beside the State
\* One AgentStateManager used for both of its parts: the memory log behind
\* `memory: RwLock<Vec<MemoryEntry>>` and the State behind `state: RwLock<State>`.
SharedMemStep(p) ==
    \/ AddMemoryCall(p, "entry1")
    \/ AddMemoryLocked(p)
    \/ ClearMemoryCall(p)
    \/ ClearMemoryLocked(p)
    \/ GetMemoryCall(p)
    \/ ListMemoryCall(p)
    \/ MemReadLocked(p, 1)
    \/ SearchMemoryCall(p)
    \/ SearchMemoryLocked(p, "entry")

SharedStateStep(p) ==
    \/ UpdateStateCall(p)
    \/ UpdateLocked(p, [k \in Keys |-> 1])
    \/ UpdateMerge(p)
    \/ SnapshotCall(p)
    \/ SnapshotLocked(p)
    \/ UpdateTaskCall(p, [id |-> 1, status |-> "Running", result |-> None, error |-> None])
    \/ UpdateTaskLocked(p)
    \/ GetTaskCall(p, 1)
    \/ GetTaskLocked(p)
    \/ RemoveTaskCall(p, 1)
    \/ RemoveTaskLocked(p)

NextShared == \E p \in Procs : SharedMemStep(p) \/ SharedStateStep(p)

\* AgentStateManager::new(config): a log kept in memory only, or one persisted to a
\* file that does not exist yet.
InitShared ==
    /\ InitProcs
    /\ memory_config \in {[capacity |-> MaxCapacity, persistent |-> b,
                            persist_path |-> IF b THEN "some" ELSE "none"] : b \in BOOLEAN}
    /\ memory = <<>>
    /\ memWriter = NoProc
    /\ disk = NoFile
    /\ nextId = 1
    /\ clock = 1
    /\ addLog = <<>>
    /\ pristine = TRUE
    /\ InitState
    /\ InitRegistry
    /\ InitPipeline

SpecShared == InitShared /\ [][NextShared]_vars

\* ------------------------------------------------------------------ the Agent
\* TaskState as execute_task creates it.
RunningRecord(id) == [id |-> id, status |-> "Running", result |-> None, error |-> None]

\* The arms of `match self.execute_with_tools(params).await` on the stored record.
TerminalRecordStoresOther(rec, outcome) ==
    IF outcome.ok
    THEN [rec EXCEPT !.status = "Completed", !.result = Some(EmptyMap)]
    ELSE [rec EXCEPT !.status = "Failed", !.error = Some(outcome.error.msg)]
TerminalRecordLeavesRunning(rec, outcome) == rec
TerminalRecordDropsError(rec, outcome) ==
    IF outcome.ok
    THEN [rec EXCEPT !.status = "Completed", !.result = Some(outcome.value)]
    ELSE [rec EXCEPT !.status = "Failed"]
TerminalRecord(rec, outcome) ==
    IF outcome.ok
    THEN [rec EXCEPT !.status = "Completed", !.result = Some(outcome.value)]
    ELSE [rec EXCEPT !.status = "Failed", !.error = Some(ErrorToString(outcome.error))]

\* AgentBuilder::build registers the builder's tools in a fresh ToolManager; the
\* agents modelled are built with .tool("test_tool", TestTool) and
\* .tool("calculator", CalculatorTool).
DefaultConfig(name, tool) ==
    [name |-> name, description |-> Description(tool), config |-> EmptyMap,
     input_schema |-> None]
BuiltTools == [n \in {"test_tool", "calculator"} |->
                  IF n = "test_tool" THEN "TestTool" ELSE "CalculatorTool"]

InitAgentTools ==
    /\ tools = BuiltTools
    /\ configs = [n \in DOMAIN BuiltTools |-> DefaultConfig(n, BuiltTools[n])]
    /\ toolsReaders = {}

\* handle_event, up to state.write().await; the rest is State::update under the lock.
HandleEventCall(p) ==
    /\ Idle(p)
    /\ StGoto(p, "update_wait", [op |-> "handle_event"])
    /\ UNCHANGED stateVars

\* execute_task, up to state.write().await.
ExecuteTaskCall(p) ==
    /\ Idle(p)
    /\ StGoto(p, "exec_wait", [op |-> "execute_task"])
    /\ UNCHANGED stateVars

\* An execute_task that drops the write guard right after inserting its record.
ExecuteTaskLockedUnheld(p, id, params) ==
    /\ pc[p] = "exec_wait"
    /\ stWriter = NoProc
    /\ stWriter' = NoProc
    /\ tasks' = [x \in (DOMAIN tasks) \cup {id} |->
                   IF x = id THEN [id |-> id, status |-> "Running", result |-> None,
                                   error |-> None]
                   ELSE tasks[x]]
    /\ Goto(p, "exec_tools", [op |-> "execute_task", id |-> id, params |-> params,
                              reused |-> id \in DOMAIN tasks])
    /\ UNCHANGED <<stMemory, committed, memVars, regVars, pipeVars>>

\* execute_task(id, params) with the write lock granted: the Running record is
\* inserted (reused: history, a record was stored under id before).
ExecuteTaskLocked(p, id, params) ==
    /\ pc[p] = "exec_wait"
    /\ StateWriteFree
    /\ stWriter' = p
    /\ tasks' = MapInsert(tasks, id, RunningRecord(id))
    /\ Goto(p, "exec_tools", [op |-> "execute_task", id |-> id, params |-> params,
                              reused |-> id \in DOMAIN tasks])
    /\ UNCHANGED <<stMemory, committed, memVars, regVars, pipeVars>>

\* execute_with_tools up to tool.execute(params).await: tools.read(), the tool name,
\* the tool. An Err leaves through `?` and drops the read guard.
ExecuteWithTools(p) ==
    /\ pc[p] = "exec_tools"
    /\ LET name == call[p].params.tool IN
       IF name = NoName
       THEN /\ Goto(p, "exec_done",
                    call[p] @@
                    [outcome |-> Err("InvalidRequest", "Tool name is required"), ran |-> None])
            /\ UNCHANGED toolsReaders
       ELSE IF ToolManagerGet(tools, name) = None
       THEN /\ Goto(p, "exec_done",
                    call[p] @@ [outcome |-> Err("ToolNotFound", name), ran |-> None])
            /\ UNCHANGED toolsReaders
       ELSE /\ Goto(p, "exec_body", call[p] @@ [tool |-> ToolManagerGet(tools, name)[1]])
            /\ toolsReaders' = toolsReaders \cup {p}
    /\ UNCHANGED <<stateVars, memVars, tools, configs, pipeVars>>

\* The tool body runs to its end; execute_with_tools returns and drops the read guard.
ToolBody(p) ==
    /\ pc[p] = "exec_body"
    /\ Goto(p, "exec_done",
            [op |-> "execute_task", id |-> call[p].id, params |-> call[p].params,
             reused |-> call[p].reused,
             outcome |-> ToolExecute(call[p].tool, call[p].params),
             ran |-> Some(call[p].tool)])
    /\ toolsReaders' = toolsReaders \ {p}
    /\ UNCHANGED <<stateVars, memVars, tools, configs, pipeVars>>

\* An execute_task that returns without dropping its write guard.
ExecuteTaskFinishKeepsGuard(p) ==
    /\ pc[p] = "exec_done"
    /\ call[p].id \in DOMAIN tasks
    /\ tasks' = [tasks EXCEPT ![call[p].id] =
                    IF call[p].outcome.ok
                    THEN [@ EXCEPT !.status = "Completed",
                                   !.result = Some(call[p].outcome.value)]
                    ELSE [@ EXCEPT !.status = "Failed",
                                   !.error = Some(call[p].outcome.error.msg)]]
    /\ Return(p, [op |-> "execute_task", kind |-> "returned", id |-> call[p].id,
                  params |-> call[p].params, outcome |-> call[p].outcome,
                  ran |-> call[p].ran, reused |-> call[p].reused])
    /\ UNCHANGED <<stMemory, stWriter, committed, memVars, regVars, pipeVars>>

\* The match arms: the record is made terminal (get_mut(task_id).unwrap() panics on a
\* missing record), the outcome goes to the caller and the write guard is dropped.
ExecuteTaskFinish(p) ==
    /\ pc[p] = "exec_done"
    /\ stWriter' = NoProc
    /\ IF call[p].id \in DOMAIN tasks
       THEN /\ tasks' = [tasks EXCEPT ![call[p].id] = TerminalRecord(@, call[p].outcome)]
            /\ Return(p, [op |-> "execute_task", kind |-> "returned", id |-> call[p].id,
                          params |-> call[p].params, outcome |-> call[p].outcome,
                          ran |-> call[p].ran, reused |-> call[p].reused])
       ELSE /\ UNCHANGED tasks
            /\ Return(p, [op |-> "execute_task", kind |-> "panic", id |-> call[p].id,
                          params |-> call[p].params, outcome |-> call[p].outcome,
                          ran |-> call[p].ran, reused |-> call[p].reused])
    /\ UNCHANGED <<stMemory, committed, memVars, regVars, pipeVars>>

NextAgent ==
    \E p \in Procs :
        \/ HandleEventCall(p)
        \/ \E d \in Payloads : UpdateLocked(p, d)
        \/ UpdateMerge(p)
        \/ ExecuteTaskCall(p)
        \/ \E id \in TaskIds, ps \in Params : ExecuteTaskLocked(p, id, ps)
        \/ ExecuteWithTools(p)
        \/ ToolBody(p)
        \/ ExecuteTaskFinish(p)
        \/ SnapshotCall(p)
        \/ SnapshotLocked(p)

InitAgent ==
    InitProcs /\ InitMemoryOff /\ InitState /\ InitAgentTools /\ InitPipeline

SpecAgent == InitAgent /\ [][NextAgent]_vars

\* ------------------------------------------------- the Agent, calls that return
\* Agent::list_tools, up to tools.read().await.
AgentListToolsCall(p) ==
    /\ Idle(p)
    /\ Goto(p, "agent_list_wait", [op |-> "list_tools"])
    /\ UNCHANGED <<stateVars, memVars, regVars, pipeVars>>

\* Agent::list_tools with the read lock granted (nothing ever asks for the write
\* lock of the Agent's ToolManager): one ToolInfo per registered tool, then the
\* guard is dropped.
AgentListToolsLocked(p) ==
    /\ pc[p] = "agent_list_wait"
    /\ Return(p, [op |-> "list_tools", kind |-> "ok",
                  list |-> {[name |-> n, description |-> Description(tools[n]),
                             input_schema |-> None] : n \in DOMAIN tools}])
    /\ UNCHANGED <<stateVars, memVars, regVars, pipeVars>>

\* The steps that go on with a call of p already issued.
LiveStep(p) ==
    \/ UpdateLocked(p, [k \in Keys |-> 1])
    \/ UpdateMerge(p)
    \/ \E id \in TaskIds, ps \in Params : ExecuteTaskLocked(p, id, ps)
    \/ ExecuteWithTools(p)
    \/ ToolBody(p)
    \/ ExecuteTaskFinish(p)
    \/ AgentListToolsLocked(p)

NextLive ==
    \E p \in Procs :
        \/ HandleEventCall(p)
        \/ ExecuteTaskCall(p)
        \/ AgentListToolsCall(p)
        \/ LiveStep(p)

\* tokio's RwLock is fair (waiters are served in order) and every tool body of the
\* repository runs to its end: a call that can go on again and again does go on.
Fairness == \A p \in Procs : SF_vars(LiveStep(p))

SpecLive == InitAgent /\ [][NextLive]_vars /\ Fairness

\* ------------------------------------------------------------- the ToolManager
\* Descriptors a caller may pass to update_config; the name field is the caller's
\* choice and need not be the key.
CustomConfigs ==
    [name : ToolNames, description : {"custom"}, config : {[k \in {"k1"} |-> 1]},
     input_schema : {None}]

\* register: self.configs.insert(name.clone(), config); self.tools.insert(name, Arc::new(tool)).
RegisterConfigsKeepsOld(cs, name, tool) ==
    IF name \in DOMAIN cs THEN cs ELSE MapInsert(cs, name, DefaultConfig(name, tool))
RegisterConfigs(cs, name, tool) == MapInsert(cs, name, DefaultConfig(name, tool))
RegisterToolsKeepsOld(ts, name, tool) ==
    IF name \in DOMAIN ts THEN ts ELSE MapInsert(ts, name, tool)
RegisterTools(ts, name, tool) == MapInsert(ts, name, tool)

\* update_config: Err(ToolNotFound) unless self.tools.contains_key(name).
UpdateConfigFound(ts, name) == name \in DOMAIN ts
UpdateConfigsByDescriptorName(ts, cs, name, config) ==
    IF UpdateConfigFound(ts, name) THEN MapInsert(cs, config.name, config) ELSE cs
UpdateConfigsUnchecked(ts, cs, name, config) == MapInsert(cs, name, config)
UpdateConfigs(ts, cs, name, config) ==
    IF UpdateConfigFound(ts, name) THEN MapInsert(cs, name, config) ELSE cs

\* list_tools: self.configs.values().collect(), in no particular order: a bag.
ListTools(cs) ==
    [d \in Range(cs) |-> Cardinality({n \in DOMAIN cs : cs[n] = d})]

\* create_context: the descriptor or ToolNotFound; validate() accepts everything.
CreateContext(cs, name, params) ==
    IF name \in DOMAIN cs
    THEN Ok([config |-> cs[name], params |-> params])
    ELSE Err("ToolNotFound", name)

RegReturn(p, r) == Return(p, r) /\ UNCHANGED <<memVars, stateVars, toolsReaders, pipeVars>>

Register(p, name, tool) ==
    /\ Idle(p)
    /\ configs' = RegisterConfigs(configs, name, tool)
    /\ tools' = RegisterTools(tools, name, tool)
    /\ RegReturn(p, [op |-> "register", kind |-> "ok", name |-> name, tool |-> tool,
                     existed |-> name \in DOMAIN tools,
                     replaced |-> IF name \in DOMAIN configs
                                  THEN Some(configs[name].description) ELSE None])

UpdateConfig(p, name, config) ==
    /\ Idle(p)
    /\ configs' = UpdateConfigs(tools, configs, name, config)
    /\ UNCHANGED tools
    /\ RegReturn(p, [op |-> "update_config", name |-> name, config |-> config,
                     kind |-> IF UpdateConfigFound(tools, name) THEN "ok" ELSE "ToolNotFound"])

\* get: self.tools.get(name).cloned()
GetTool(p, name) ==
    /\ Idle(p)
    /\ UNCHANGED <<tools, configs>>
    /\ RegReturn(p, [op |-> "get", kind |-> "ok", name |-> name,
                     tool |-> ToolManagerGet(tools, name)])

ListToolsCall(p) ==
    /\ Idle(p)
    /\ UNCHANGED <<tools, configs>>
    /\ RegReturn(p, [op |-> "list_tools", kind |-> "ok", list |-> ListTools(configs)])

CreateContextCall(p, name, params) ==
    /\ Idle(p)
    /\ UNCHANGED <<tools, configs>>
    /\ RegReturn(p, [op |-> "create_context", kind |-> "ok", name |-> name,
                     context |-> CreateContext(configs, name, params)])

NextReg ==
    \E p \in Procs :
        \/ \E n \in ToolNames, t \in ToolImpls : Register(p, n, t)
        \/ \E n \in ToolNames, c \in CustomConfigs : UpdateConfig(p, n, c)
        \/ \E n \in ToolNames : GetTool(p, n)
        \/ ListToolsCall(p)
        \/ \E ps \in {q \in Params : q.tool \in ToolNames} : CreateContextCall(p, ps.tool, ps)

InitReg == InitProcs /\ InitMemoryOff /\ InitState /\ InitRegistry /\ InitPipeline

SpecReg == InitReg /\ [][NextReg]_vars

\* ------------------------------------------------------------ error conversion
\* An error value of one of the three crates: its enum (ty), its variant (kind), the
\* String it carries (msg, "" when it carries none) and the error it wraps (inner,
\* empty when it wraps none).
ErrorValue(ty, kind, msg, inner) == [ty |-> ty, kind |-> kind, msg |-> msg, inner |-> inner]

\* Message strings tried.
Messages == {"test error", "test_tool"}

\* anyhow::Error: made from a message (anyhow!) or from an error it wraps (From<E>).
AnyhowMsg(msg) == ErrorValue("anyhow", "msg", msg, <<>>)
AnyhowFrom(e) == ErrorValue("anyhow", "from", "", <<e>>)

\* atlas_core::Error
CoreStringKinds == {"Agent", "Config", "State", "Tool", "Event"}
CoreErrors ==
    {ErrorValue("core", k, m, <<>>) : k \in CoreStringKinds, m \in Messages}
        \cup {ErrorValue("core", "Other", "", <<AnyhowMsg(m)>>) : m \in Messages}

\* atlas_mcp::Error
McpStringKinds == {"ToolNotFound", "ResourceNotFound", "InvalidRequest",
                   "ToolExecutionFailed", "ResourceAccessFailed", "ServerError"}
McpErrors ==
    {ErrorValue("mcp", k, m, <<>>) : k \in McpStringKinds, m \in Messages}
        \cup {ErrorValue("mcp", "Other", "", <<AnyhowMsg(m)>>) : m \in Messages}

\* atlas_agent::Error
AgentStringKinds == {"InvalidConfig", "InvalidRequest", "ToolNotFound",
                     "ToolExecutionFailed", "StateError", "TaskError", "MemoryError"}
AgentErrors ==
    {ErrorValue("agent", k, m, <<>>) : k \in AgentStringKinds, m \in Messages}
        \cup {ErrorValue("agent", "Core", "", <<c>>) : c \in CoreErrors}
        \cup {ErrorValue("agent", "MCP", "", <<e>>) : e \in McpErrors}
        \cup {ErrorValue("agent", "Other", "", <<AnyhowMsg(m)>>) : m \in Messages}

\* impl From<Error> for atlas_core::Error
AgentIntoCore(err) ==
    CASE err.kind = "InvalidConfig" -> ErrorValue("core", "Config", err.msg, <<>>)
      [] err.kind = "InvalidRequest" -> ErrorValue("core", "Agent", err.msg, <<>>)
      [] err.kind = "ToolNotFound" -> ErrorValue("core", "Tool", err.msg, <<>>)
      [] err.kind = "ToolExecutionFailed" -> ErrorValue("core", "Tool", err.msg, <<>>)
      [] err.kind = "StateError" -> ErrorValue("core", "State", err.msg, <<>>)
      [] err.kind = "TaskError" -> ErrorValue("core", "Agent", err.msg, <<>>)
      [] err.kind = "MemoryError" -> ErrorValue("core", "State", err.msg, <<>>)
      [] err.kind = "Core" -> err.inner[1]
      [] err.kind = "MCP" -> ErrorValue("core", "Other", "", <<AnyhowFrom(err.inner[1])>>)
      [] err.kind = "Other" -> ErrorValue("core", "Other", "", err.inner)

\* A conversion to MCP that goes through the core error.
AgentIntoMcpByWayOfCore(err) ==
    ErrorValue("mcp", "Other", "", <<AnyhowFrom(AgentIntoCore(err))>>)
\* impl From<Error> for atlas_mcp::Error
AgentIntoMcp(err) ==
    CASE err.kind = "InvalidConfig" -> ErrorValue("mcp", "InvalidRequest", err.msg, <<>>)
      [] err.kind = "InvalidRequest" -> ErrorValue("mcp", "InvalidRequest", err.msg, <<>>)
      [] err.kind = "ToolNotFound" -> ErrorValue("mcp", "ToolNotFound", err.msg, <<>>)
      [] err.kind = "ToolExecutionFailed" ->
            ErrorValue("mcp", "ToolExecutionFailed", err.msg, <<>>)
      [] err.kind = "StateError" -> ErrorValue("mcp", "ServerError", err.msg, <<>>)
      [] err.kind = "TaskError" -> ErrorValue("mcp", "ServerError", err.msg, <<>>)
      [] err.kind = "MemoryError" -> ErrorValue("mcp", "ServerError", err.msg, <<>>)
      [] err.kind = "Core" -> ErrorValue("mcp", "Other", "", <<AnyhowFrom(err.inner[1])>>)
      [] err.kind = "MCP" -> err.inner[1]
      [] err.kind = "Other" -> ErrorValue("mcp", "Other", "", err.inner)

\* A core error turned into an MCP error: no From<atlas_core::Error> exists for
\* atlas_mcp::Error; the way the crates offer is Error::Core (#[from]) and then the
\* Core arm of the conversion above.
CoreIntoMcp(e) == AgentIntoMcp(ErrorValue("agent", "Core", "", <<e>>))

\* Each caller starts with an agent error of its own and converts it.
IntoCore(p) ==
    /\ ret' = [proc |-> p, val |-> [op |-> "into_core", err |-> call[p].err,
                                     value |-> AgentIntoCore(call[p].err)]]
    /\ UNCHANGED <<pc, call, memVars, stateVars, regVars, pipeVars>>

IntoMcp(p) ==
    /\ ret' = [proc |-> p, val |-> [op |-> "into_mcp", err |-> call[p].err,
                                     value |-> AgentIntoMcp(call[p].err)]]
    /\ UNCHANGED <<pc, call, memVars, stateVars, regVars, pipeVars>>

IntoCoreIntoMcp(p) ==
    /\ ret' = [proc |-> p, val |-> [op |-> "into_core_into_mcp", err |-> call[p].err,
                                     value |-> CoreIntoMcp(AgentIntoCore(call[p].err))]]
    /\ UNCHANGED <<pc, call, memVars, stateVars, regVars, pipeVars>>

NextErr == \E p \in Procs : IntoCore(p) \/ IntoMcp(p) \/ IntoCoreIntoMcp(p)

InitErr ==
    /\ pc = [p \in Procs |-> "idle"]
    /\ call \in [Procs -> {[op |-> "error", err |-> e] : e \in AgentErrors}]
    /\ ret = NoRet
    /\ InitMemoryOff
    /\ InitState
    /\ InitRegistry
    /\ InitPipeline

SpecErr == InitErr /\ [][NextErr]_vars

\* ------------------------------------------------------------ the ToolPipeline
\* Middleware a caller may add: two that log around next (LoggingMiddleware of the
\* tests) and one that rejects without calling next.
Middlewares ==
    {[name |-> "A", kind |-> "pass"], [name |-> "B", kind |-> "pass"],
     [name |-> "Deny", kind |-> "short"]}

BeforeEv(m) == [ev |-> "before", who |-> m.name]
AfterEv(m) == [ev |-> "after", who |-> m.name]
ToolEv(tool, params) == [ev |-> "tool", who |-> tool, params |-> params]

\* middleware.process(ctx, next): what the body does, and what it returns, given
\* what calling next would do. next is FnOnce: it runs once or not at all.
ProcessAlwaysCallsNext(m, nextRun) ==
    [log |-> <<BeforeEv(m)>> \o nextRun.log \o <<AfterEv(m)>>, result |-> nextRun.result]
Process(m, nextRun) ==
    IF m.kind = "pass"
    THEN [log |-> <<BeforeEv(m)>> \o nextRun.log \o <<AfterEv(m)>>, result |-> nextRun.result]
    ELSE [log |-> <<BeforeEv(m)>>, result |-> Err("anyhow", "denied by " \o m.name)]

\* create_next(chain, tool, context)(ctx): the first middleware left wraps the rest;
\* the terminal closure is tool.execute(ctx.params.clone()).
RECURSIVE CreateNextInnermostFirst(_, _, _)
CreateNextInnermostFirst(chain, tool, ctx) ==
    IF chain = <<>>
    THEN [log |-> <<ToolEv(tool, ctx.params)>>, result |-> ToolExecute(tool, ctx.params)]
    ELSE Process(chain[Len(chain)],
                 CreateNextInnermostFirst(SubSeq(chain, 1, Len(chain) - 1), tool, ctx))
RECURSIVE CreateNext(_, _, _)
CreateNext(chain, tool, ctx) ==
    IF chain = <<>>
    THEN [log |-> <<ToolEv(tool, ctx.params)>>, result |-> ToolExecute(tool, ctx.params)]
    ELSE Process(Head(chain), CreateNext(Tail(chain), tool, ctx))

\* ToolPipeline::execute: the context, the tool, then the chain.
PipelineRunResolvesLast(name, params) ==
    IF name \in DOMAIN tools
    THEN CreateNext(middleware, tools[name], [config |-> configs[name], params |-> params])
    ELSE [log |-> [i \in 1..Len(middleware) |-> BeforeEv(middleware[i])],
          result |-> Err("ToolNotFound", name)]
PipelineRunAltersParams(name, params) ==
    LET context == CreateContext(configs, name, params) IN
    IF ~context.ok THEN [log |-> <<>>, result |-> context]
    ELSE IF name \notin DOMAIN tools
    THEN [log |-> <<>>, result |-> Err("ToolNotFound", name)]
    ELSE CreateNext(middleware, tools[name], [context.value EXCEPT !.params.b = 3])
PipelineRun(name, params) ==
    LET context == CreateContext(configs, name, params) IN
    IF ~context.ok THEN [log |-> <<>>, result |-> context]
    ELSE IF name \notin DOMAIN tools
    THEN [log |-> <<>>, result |-> Err("ToolNotFound", name)]
    ELSE CreateNext(middleware, tools[name], context.value)

PipeReturn(p, r) == Return(p, r) /\ UNCHANGED <<memVars, stateVars, regVars>>

\* with_middleware: self.middleware.push(Box::new(middleware)).
WithMiddleware(p, m) ==
    /\ Idle(p)
    /\ Len(middleware) < MaxMiddleware
    /\ middleware' = Append(middleware, m)
    /\ UNCHANGED pipeLog
    /\ PipeReturn(p, [op |-> "with_middleware", kind |-> "ok"])

PipelineExecute(p, name, params) ==
    /\ Idle(p)
    /\ pipeLog' = PipelineRun(name, params).log
    /\ UNCHANGED middleware
    /\ PipeReturn(p, [op |-> "pipeline_execute", kind |-> "returned", name |-> name,
                      params |-> params, outcome |-> PipelineRun(name, params).result])

NextPipe ==
    \E p \in Procs :
        \/ \E m \in Middlewares : WithMiddleware(p, m)
        \/ \E n \in ToolNames, ps \in Params : PipelineExecute(p, n, ps)

\* ToolPipeline::new(manager) over a manager that registered the two tools.
InitPipe == InitProcs /\ InitMemoryOff /\ InitState /\ InitAgentTools /\ InitPipeline

SpecPipe == InitPipe /\ [][NextPipe]_vars

\* --------------------------------------------- the Agent beside a ToolPipeline
\* An application that holds an Agent and a ToolPipeline built with the same two
\* tools: it adds middleware to the pipeline and runs tasks on the agent.
NextRouted ==
    \E p \in Procs :
        \/ \E m \in Middlewares : WithMiddleware(p, m)
        \/ ExecuteTaskCall(p)
        \/ \E id \in TaskIds, ps \in Params : ExecuteTaskLocked(p, id, ps)
        \/ ExecuteWithTools(p)
        \/ ToolBody(p)
        \/ ExecuteTaskFinish(p)

InitRouted == InitProcs /\ InitMemoryOff /\ InitState /\ InitAgentTools /\ InitPipeline

SpecRouted == InitRouted /\ [][NextRouted]_vars

\* ------------------------------------------------------------ the AgentBuilder
\* Config values a caller may pass (description, capabilities and config carry no
\* behaviour and are left out).
AgentNames == {"", "test_agent"}
Configs == [name : AgentNames]

\* Config::validate.
ConfigValidate(config) ==
    IF config.name = "" THEN Err("InvalidConfig", "Agent name is required") ELSE Ok("unit")

\* The (name, tool) pairs pushed by AgentBuilder::tool, in call order.
BuilderTools == UNION {[1..n -> ToolNames \X ToolImpls] : n \in 0..MaxBuilderTools}

\* The State values passed to AgentBuilder::state, or none.
BuilderStates ==
    {None} \cup {Some([memory |-> m, tasks |-> EmptyMap]) :
                    m \in {EmptyMap} \cup [Keys -> Values]}

\* for (name, tool) in self.tools { tool_manager.register(name, tool); }
RECURSIVE BuildRegister(_, _)
BuildRegister(manager, list) ==
    IF list = <<>> THEN manager
    ELSE BuildRegister(
             [tools |-> RegisterTools(manager.tools, Head(list)[1], Head(list)[2]),
              configs |-> RegisterConfigs(manager.configs, Head(list)[1], Head(list)[2])],
             Tail(list))

\* AgentBuilder::build over the builder's fields: InvalidConfig without a config, else
\* the Agent made of the config, the state (or State::default()) and the registry.
BuildResult(config, list, state) ==
    IF config = None
    THEN Err("InvalidConfig", "Agent configuration is required")
    ELSE Ok([config |-> config[1],
             state |-> IF state = None
                       THEN [memory |-> EmptyMap, tasks |-> EmptyMap] ELSE state[1],
             manager |-> BuildRegister([tools |-> EmptyMap, configs |-> EmptyMap], list)])

\* The variables of the agent now hold the agent a constructor has returned.
AgentInstalled(result) ==
    IF result.ok
    THEN /\ stMemory' = result.value.state.memory
         /\ committed' = result.value.state.memory
         /\ tasks' = result.value.state.tasks
         /\ stWriter' = NoProc
         /\ tools' = result.value.manager.tools
         /\ configs' = result.value.manager.configs
         /\ toolsReaders' = {}
    ELSE UNCHANGED <<stateVars, regVars>>

\* AgentBuilder::new().config(..)?.tool(..)*.state(..)?.build()
Build(p, config, list, state) ==
    /\ Idle(p)
    /\ AgentInstalled(BuildResult(config, list, state))
    /\ Return(p, [op |-> "build", config |-> config,
                  outcome |-> BuildResult(config, list, state)])
    /\ UNCHANGED <<memVars, pipeVars>>

\* Agent::new(config): AgentBuilder::new().config(config).build()
AgentNew(p, config) ==
    /\ Idle(p)
    /\ AgentInstalled(BuildResult(Some(config), <<>>, None))
    /\ Return(p, [op |-> "new", config |-> Some(config),
                  outcome |-> BuildResult(Some(config), <<>>, None)])
    /\ UNCHANGED <<memVars, pipeVars>>

\* config.validate(), called by whoever holds a Config.
ValidateCall(p, config) ==
    /\ Idle(p)
    /\ Return(p, [op |-> "validate", config |-> Some(config),
                  outcome |-> ConfigValidate(config)])
    /\ UNCHANGED <<memVars, stateVars, regVars, pipeVars>>

NextBuild ==
    \E p \in Procs :
        \/ \E c \in {None} \cup {Some(x) : x \in Configs}, l \in BuilderTools,
              s \in BuilderStates : Build(p, c, l, s)
        \/ \E c \in Configs : AgentNew(p, c)
        \/ \E c \in Configs : ValidateCall(p, c)

InitBuild == InitProcs /\ InitMemoryOff /\ InitState /\ InitRegistry /\ InitPipeline

SpecBuild == InitBuild /\ [][NextBuild]_vars

\* ------------------------------------------------------------ claims: memory log

\* The last n elements of a sequence.
LastN(s, n) == IF Len(s) <= n THEN s ELSE SubSeq(s, Len(s) - n + 1, Len(s))

\* C1 (FIFO eviction): in a store of capacity C >= 1 that was empty and has since
\* seen only add_memory calls, get_memory(id) finds an entry exactly for the ids of
\* the last C entries pushed; the ids pushed before those are gone. Stated of the
\* log and of every value get_memory returns.
C1_FifoEviction ==
    (memory_config.capacity >= 1 /\ pristine) =>
        /\ \A i \in 1..Len(addLog) :
              (FindEntry(memory, addLog[i]) # <<>>)
                  <=> (i > Len(addLog) - memory_config.capacity)
        /\ ret.val.op = "get_memory" =>
              ((ret.val.entries # <<>>)
                  <=> (ret.val.id \in Range(LastN(addLog, memory_config.capacity))))

\* C1 witness: capacity C >= 1, C + 2 entries pushed, and get_memory of the first
\* one has just returned nothing.
C1_Witness ==
    /\ memory_config.capacity >= 1
    /\ pristine
    /\ Len(addLog) >= memory_config.capacity + 2
    /\ ret.val.op = "get_memory"
    /\ ret.val.id = addLog[1]
    /\ ret.val.entries = <<>>

\* C2 (capacity invariant): with capacity >= 1 the store never holds more than
\* capacity entries, whatever add, clear and load operations ran.
C2_CapacityInvariant ==
    memory_config.capacity >= 1 => Len(memory) <= memory_config.capacity

\* C5 (persistence on mutation terminates): on a persistent store with a path, an
\* add_memory or clear_memory call in progress can always take its next step, unless
\* another caller holds the lock it waits for.
C5_MutationTerminates ==
    \A p \in Procs :
        (/\ memory_config.capacity >= 1
         /\ PersistsToFile
         /\ call[p].op \in {"add_memory", "clear_memory"}) =>
            (ENABLED MemStep(p) \/ memWriter \notin {NoProc, p})

\* C17 (list and get): the log changes only by a push at its end (after the front
\* entry was dropped, when full), by a clear or by a load, so its order is the order
\* of insertion: in a store not loaded from a file the ids held are the last pushed
\* ones, oldest first. list_memory returns the log as it is, and get_memory(id)
\* returns the entry of that id exactly when the log holds one.
C17_ListAndGet ==
    [][/\ memory' # memory =>
             \/ memory' = <<>>
             \/ \E p \in Procs : pc[p] = "load_wait" /\ memory' = call[p].entries
             \/ \E p \in Procs :
                   /\ pc[p] = "add_wait"
                   /\ \A i \in 1..Len(memory) : memory[i].id # call[p].entry.id
                   /\ \/ memory' = Append(memory, call[p].entry)
                      \/ memory # <<>> /\ memory' = Append(Tail(memory), call[p].entry)
       /\ pristine' => [i \in 1..Len(memory') |-> memory'[i].id]
                           = LastN(addLog', memory_config.capacity)
       /\ ret'.val.op = "list_memory" => ret'.val.entries = memory'
       /\ ret'.val.op = "get_memory" =>
             IF \E i \in 1..Len(memory') : memory'[i].id = ret'.val.id
             THEN /\ Len(ret'.val.entries) = 1
                  /\ ret'.val.entries[1].id = ret'.val.id
                  /\ \E i \in 1..Len(memory') : memory'[i] = ret'.val.entries[1]
             ELSE ret'.val.entries = <<>>]_vars

\* C17 witness: list_memory has returned two entries, the older one first, after a
\* third one was evicted.
C17_Witness ==
    /\ ret.val.op = "list_memory"
    /\ pristine
    /\ Len(addLog) = 3
    /\ Len(ret.val.entries) = 2
    /\ ret.val.entries[1].id = addLog[2]
    /\ ret.val.entries[2].id = addLog[3]

\* C18 (search): search_memory(query) returns the entries of the log whose data,
\* written as JSON text, contains query, in the order of the log, and leaves the log
\* as it was.
C18_Search ==
    [][ret'.val.op = "search_memory" =>
          LET found == ret'.val.entries
              query == ret'.val.query
              hits == {i \in 1..Len(memory) :
                          Contains("\"" \o memory[i].data \o "\"", query)}
          IN  /\ ret'.val.kind = "ok"
              /\ memory' = memory
              /\ Len(found) = Cardinality(hits)
              /\ \A j \in 1..Len(found) :
                    \E i \in hits :
                        /\ found[j] = memory[i]
                        /\ Cardinality({h \in hits : h < i}) = j - 1]_vars

\* C18 witness: a search for the quoted text of one data value has returned one of
\* the two entries stored.
C18_Witness ==
    /\ ret.val.op = "search_memory"
    /\ ret.val.query = "\"entry1\""
    /\ Len(memory) = 2
    /\ Len(ret.val.entries) = 1
    /\ ret.val.entries[1].data = "entry1"

\* C19 (clear): when clear_memory returns the log is empty and unlocked, as in a new
\* store; from then on, until a load, list_memory returns and get_memory finds
\* exactly the last capacity entries pushed since the clear, so nothing pushed before
\* it.
C19_ClearEmpties ==
    /\ ret.val.op = "clear_memory" =>
          (ret.val.kind = "ok" /\ memory = <<>> /\ memWriter = NoProc)
    /\ (pristine /\ ret.val.op = "list_memory") =>
          [i \in 1..Len(ret.val.entries) |-> ret.val.entries[i].id]
              = LastN(addLog, memory_config.capacity)
    /\ (pristine /\ ret.val.op = "get_memory") =>
          ((ret.val.entries # <<>>)
              <=> \E i \in 1..Len(addLog) :
                     i > Len(addLog) - memory_config.capacity /\ addLog[i] = ret.val.id)

\* C19 witness: every call has returned, the last one a get_memory that found nothing
\* for an id constructed earlier than the one entry now stored, in a store that has
\* room for both: the entry of that id was pushed and then cleared.
C19_Witness ==
    /\ \A p \in Procs : pc[p] = "idle"
    /\ pristine
    /\ memory_config.capacity = 2
    /\ Len(addLog) = 1
    /\ ret.val.op = "get_memory"
    /\ ret.val.id \in 1..(addLog[1] - 1)
    /\ ret.val.entries = <<>>

\* C22 (timestamp order): the entries of the log are in non-decreasing timestamp
\* order in every reachable state.
C22_TimestampOrder ==
    \A i, j \in 1..Len(memory) : i < j => memory[i].timestamp <= memory[j].timestamp

\* C27 (persistence failure): on a persistent store with a path, a caller that has
\* made its change and is about to persist can go on to its one write attempt, and
\* an add_memory or clear_memory call that returns without having written the file
\* returns a MemoryError.
C27_PersistFailureReported ==
    \A p \in Procs :
        (memory_config.capacity >= 1 /\ PersistsToFile) =>
            /\ pc[p] = "persist_wait" => ENABLED (\E id \in EntryIds : MemReadLocked(p, id))
            /\ (ret.proc = p /\ ret.val.op \in {"add_memory", "clear_memory"}) =>
                  ret.val.kind \in {"ok", "MemoryError"}

\* C28 (load from disk), as stated: a load_memory that found the file leaves the
\* log equal to the sequence it read from the file, and a load_memory that found no
\* path or no file leaves the log empty.
C28_LoadReplacesOrEmpties ==
    [][\A p \in Procs :
          (ret'.proc = p /\ ret'.val.op = "load_memory") =>
              IF pc[p] = "load_wait"
              THEN memory' = disk.entries
              ELSE memory' = <<>>]_vars

\* C28 (load from disk), as the code has it: a load_memory that found the file
\* leaves the log equal to the sequence it read from the file, with nothing of the
\* previous log; a load_memory that found no path or no file leaves the log as it
\* was, which is empty when nothing was added since the store was created or cleared.
C28_LoadReplacesOrKeeps ==
    [][\A p \in Procs :
          (ret'.proc = p /\ ret'.val.op = "load_memory") =>
              IF pc[p] = "load_wait"
              THEN memory' = disk.entries
              ELSE /\ memory' = memory
                   /\ (pristine /\ addLog = <<>>) => memory' = <<>>]_vars

\* A load has replaced a log that held an added entry by the two entries of the file.
C28_Witness ==
    /\ ret.proc \in Procs
    /\ ret.val.op = "load_memory"
    /\ ~pristine
    /\ addLog # <<>>
    /\ Len(disk.entries) = 2
    /\ memory = disk.entries

\* ------------------------------------------------------------ claims: the Agent

\* C3 (task lifecycle): when execute_task returns, the record stored under its task
\* id is Completed iff the call returned Ok and Failed iff it returned Err; result is
\* set iff Completed, error is set iff Failed.
C3_TaskLifecycle ==
    ret.val.op = "execute_task" =>
        /\ ret.val.kind = "returned"
        /\ ret.val.id \in DOMAIN tasks
        /\ LET rec == tasks[ret.val.id] IN
           /\ (rec.status = "Completed") <=> ret.val.outcome.ok
           /\ (rec.status = "Failed") <=> ~ret.val.outcome.ok
           /\ (rec.result # None) <=> (rec.status = "Completed")
           /\ (rec.error # None) <=> (rec.status = "Failed")

\* C3 witness: a call over a task id used before, whose tool body failed, has
\* returned, and its record is Failed.
C3_Witness ==
    /\ ret.val.op = "execute_task"
    /\ ret.val.reused
    /\ ~ret.val.outcome.ok
    /\ ret.val.ran # None
    /\ tasks[ret.val.id].status = "Failed"

\* C4 (status transitions): the status of a stored record only moves
\* Pending -> Running -> Completed | Failed, and never leaves Completed or Failed.
ForwardMoves ==
    {<<"Pending", "Running">>, <<"Running", "Completed">>, <<"Running", "Failed">>}
C4_StatusOnlyForward ==
    [][\A id \in TaskIds :
          (id \in DOMAIN tasks /\ id \in DOMAIN tasks' /\ tasks'[id].status # tasks[id].status)
              => <<tasks[id].status, tasks'[id].status>> \in ForwardMoves]_vars

\* C11 (missing tool name): while an execute_task call whose params lack the "tool"
\* key holds the state lock, from the insertion of its Running record to its return,
\* no step changes the memory map or the record of another task id, and no tool body
\* is entered; it returns InvalidRequest and its record is then Failed with a
\* non-empty error string and no result.
C11_MissingToolName ==
    [][LET h == IF stWriter # NoProc THEN stWriter ELSE stWriter'
           c == IF stWriter # NoProc THEN call[h] ELSE call'[h]
       IN  (h # NoProc /\ c.op = "execute_task" /\ c.params.tool = NoName) =>
               /\ stMemory' = stMemory
               /\ DOMAIN tasks' = (DOMAIN tasks) \cup {c.id}
               /\ \A t \in (DOMAIN tasks) \ {c.id} : tasks'[t] = tasks[t]
               /\ pc'[h] # "exec_body"
               /\ ret'.val.op = "execute_task" =>
                     /\ ret'.proc = h
                     /\ ret'.val.kind = "returned"
                     /\ ret'.val.outcome = Err("InvalidRequest", "Tool name is required")
                     /\ ret'.val.ran = None
                     /\ tasks'[c.id].status = "Failed"
                     /\ tasks'[c.id].result = None
                     /\ tasks'[c.id].error # None
                     /\ tasks'[c.id].error[1] # ""]_vars

\* C11 witness: execute_task without tool name has returned over a state that holds
\* memory keys and the record of another task.
C11_Witness ==
    /\ ret.val.op = "execute_task"
    /\ ret.val.params.tool = NoName
    /\ ret.val.outcome.error.kind = "InvalidRequest"
    /\ stMemory # EmptyMap
    /\ \E t \in DOMAIN tasks : t # ret.val.id /\ tasks[t].status = "Completed"
    /\ tasks[ret.val.id].status = "Failed"

\* C12 (unknown tool): execute_task whose params name a tool that is not registered
\* returns ToolNotFound with no tool body run, and the record of its task id is
\* Failed with the error text stored.
C12_UnknownTool ==
    (/\ ret.val.op = "execute_task"
     /\ ret.val.params.tool # NoName
     /\ ret.val.params.tool \notin DOMAIN tools) =>
        /\ ret.val.kind = "returned"
        /\ ret.val.outcome = Err("ToolNotFound", ret.val.params.tool)
        /\ ret.val.ran = None
        /\ tasks[ret.val.id].status = "Failed"
        /\ tasks[ret.val.id].result = None
        /\ tasks[ret.val.id].error = Some("Tool not found: " \o ret.val.params.tool)

\* C12 witness: execute_task naming the unregistered tool "weather" has returned, over
\* a task id used before.
C12_Witness ==
    /\ ret.val.op = "execute_task"
    /\ ret.val.params.tool = "weather"
    /\ ret.val.reused
    /\ tasks[ret.val.id].status = "Failed"

\* C13 (construction-time validation): a constructor handed no configuration, or a
\* configuration that Config::validate rejects (an empty agent name), returns
\* InvalidConfig and no agent.
C13_ConstructionValidation ==
    (/\ ret.val.op \in {"build", "new"}
     /\ (ret.val.config = None \/ ~ConfigValidate(ret.val.config[1]).ok)) =>
        /\ ~ret.val.outcome.ok
        /\ ret.val.outcome.error.kind = "InvalidConfig"

\* C14 (update merges by key): handle_event / update_state takes the lock over the
\* memory map left by the whole updates before it, and returns Ok with every key of
\* its data mapped to the value from data and every other key as it was; no step
\* taken while it merges changes the task map.
C14_UpdateMergesByKey ==
    [][\A p \in Procs :
          /\ (pc[p] = "update_wait" /\ pc'[p] = "update_merge") =>
                (stMemory = committed /\ stMemory' = stMemory /\ tasks' = tasks)
          /\ pc[p] = "update_merge" =>
                /\ tasks' = tasks
                /\ pc'[p] = "update_merge" => committed' = committed
                /\ pc'[p] # "update_merge" =>
                      LET data == call[p].data IN
                      /\ ret' = [proc |-> p, val |-> [op |-> call[p].op, kind |-> "ok"]]
                      /\ DOMAIN stMemory' = (DOMAIN committed) \cup (DOMAIN data)
                      /\ \A k \in DOMAIN data : stMemory'[k] = data[k]
                      /\ \A k \in (DOMAIN committed) \ (DOMAIN data) :
                            stMemory'[k] = committed[k]]_vars

\* C14 witness: handle_event has returned, both keys are in the memory map and a
\* finished task record is stored.
C14_Witness ==
    /\ ret.val.op = "handle_event"
    /\ ret.val.kind = "ok"
    /\ DOMAIN stMemory = Keys
    /\ \E t \in DOMAIN tasks : tasks[t].status = "Completed"

\* C15 (snapshot is a copy of the memory map): snapshot is granted its read lock only
\* while no writer is at work, returns the memory map as it is at that moment, with
\* nothing but memory keys and their values in it, and changes neither the memory
\* map nor the task records.
C15_SnapshotIsCopy ==
    [][ret'.val.op = "snapshot" =>
          /\ stWriter = NoProc
          /\ ret'.val.kind = "ok"
          /\ ret'.val.value = stMemory
          /\ DOMAIN ret'.val.value \subseteq Keys
          /\ \A k \in DOMAIN ret'.val.value : ret'.val.value[k] \in Values
          /\ stMemory' = stMemory
          /\ tasks' = tasks]_vars

\* C15 witness: a snapshot holding a key has returned from an agent that also holds
\* task records, while an execute_task call waits for the lock.
C15_Witness ==
    /\ ret.val.op = "snapshot"
    /\ ret.val.value # EmptyMap
    /\ tasks # EmptyMap
    /\ \E q \in Procs : pc[q] = "exec_wait"

\* C16 (lock held across the tool call): while a tool body started by execute_task is
\* in progress its caller holds the state write lock, no other caller is inside an
\* execute_task or an update past the lock, and no step changes the memory map or a
\* task record or returns a snapshot.
C16_LockAcrossToolCall ==
    [][\A p \in Procs :
          pc[p] = "exec_body" =>
              /\ stWriter = p
              /\ \A q \in Procs \ {p} :
                    /\ pc[q] \notin {"exec_tools", "exec_body", "exec_done", "update_merge"}
                    /\ pc'[q] \notin {"exec_tools", "exec_body", "exec_done", "update_merge"}
              /\ stMemory' = stMemory
              /\ tasks' = tasks
              /\ ret'.val.op \notin {"snapshot", "handle_event", "execute_task"}]_vars

\* C16 witness: a tool body is in progress while another caller's execute_task waits
\* for the lock.
C16_Witness ==
    \E p, q \in Procs :
        /\ pc[p] = "exec_body"
        /\ pc[q] = "exec_wait"
        /\ tasks[call[p].id].status = "Running"

\* C21 (outcome recording): execute_task returns what resolution or the tool body
\* produced: InvalidRequest without a tool name, ToolNotFound for an unregistered
\* one, else the tool's own Ok or Err. On Ok the record's result is the value
\* returned; on Err the record's error is the Display text of the error returned.
C21_OutcomeRecording ==
    ret.val.op = "execute_task" =>
        LET ps == ret.val.params
            out == ret.val.outcome
            rec == tasks[ret.val.id]
            original ==
                IF ps.tool = NoName
                THEN [ok |-> FALSE,
                      error |-> [kind |-> "InvalidRequest", msg |-> "Tool name is required"]]
                ELSE IF ps.tool \notin DOMAIN tools
                THEN [ok |-> FALSE, error |-> [kind |-> "ToolNotFound", msg |-> ps.tool]]
                ELSE IF tools[ps.tool] = "TestTool"
                THEN [ok |-> TRUE, value |-> [success |-> TRUE]]
                ELSE IF ps.b = 0
                THEN [ok |-> FALSE, error |-> [kind |-> "anyhow", msg |-> "Division by zero"]]
                ELSE [ok |-> TRUE, value |-> [result |-> ps.a \div ps.b]]
            text ==
                IF out.error.kind = "InvalidRequest" THEN "Invalid request: " \o out.error.msg
                ELSE IF out.error.kind = "ToolNotFound" THEN "Tool not found: " \o out.error.msg
                ELSE out.error.msg
        IN  /\ out = original
            /\ out.ok => rec.result = <<out.value>>
            /\ ~out.ok => rec.error = <<text>>

\* C21 witness: the calculator has failed inside execute_task and the call has
\* returned its error, whose text is in the record.
C21_Witness ==
    /\ ret.val.op = "execute_task"
    /\ ret.val.ran = Some("CalculatorTool")
    /\ ret.val.outcome = Err("anyhow", "Division by zero")
    /\ tasks[ret.val.id].error = Some("Division by zero")

\* C25 (routed through the pipeline): when execute_task returns after a tool body
\* ran, the pipeline's log holds that run: the before event of every registered
\* middleware, in order, and then the event of the tool body.
C25_RoutedThroughPipeline ==
    (ret.val.op = "execute_task" /\ ret.val.ran # None) =>
        /\ Len(pipeLog) > Len(middleware)
        /\ \A i \in 1..Len(middleware) :
              pipeLog[i] = [ev |-> "before", who |-> middleware[i].name]
        /\ pipeLog[Len(middleware) + 1].ev = "tool"

\* ---------------------------------------------------- claims: the state manager

\* C8 (snapshot isolation): every snapshot returned equals the memory map made by
\* the whole update_state calls that finished before it, applied in lock order.
C8_SnapshotIsolation ==
    ret.val.op = "snapshot" => ret.val.value = committed

\* C8 witness: a snapshot holding both keys has returned while another caller's
\* update_state waits for the lock.
C8_Witness ==
    /\ ret.val.op = "snapshot"
    /\ DOMAIN ret.val.value = Keys
    /\ \E q \in Procs : pc[q] = "update_wait"

\* ------------------------------------------------------ claims: the ToolManager

\* The entries of a list_tools result whose name field is n.
EntriesNamed(list, n) ==
    BagCardinality([d \in {e \in BagToSet(list) : e.name = n} |-> list[d]])

\* C9 (idempotent registration): after register(name, tool), also over a name
\* already in use, the stored implementation is tool and the stored descriptor is
\* the default one for tool; list_tools has as many entries as there are registered
\* names and, when every descriptor carries its key as name (as after register calls
\* alone), exactly one entry for name.
C9_IdempotentRegistration ==
    ret.val.op = "register" =>
        /\ tools[ret.val.name] = ret.val.tool
        /\ configs[ret.val.name] = DefaultConfig(ret.val.name, ret.val.tool)
        /\ BagCardinality(ListTools(configs)) = Cardinality(DOMAIN tools)
        /\ (\A m \in DOMAIN configs : configs[m].name = m)
              => EntriesNamed(ListTools(configs), ret.val.name) = 1

\* C9 witness: a register over a name in use has returned, another name is
\* registered too, and every descriptor carries its key.
C9_Witness ==
    /\ ret.val.op = "register"
    /\ ret.val.existed
    /\ Cardinality(DOMAIN tools) >= 2
    /\ \A m \in DOMAIN configs : configs[m].name = m

\* C10 (update_config): on a name that is not registered it returns ToolNotFound and
\* changes nothing; on a registered name it returns Ok, stores the descriptor under
\* that name and changes neither the tools nor any other descriptor.
C10_UpdateConfig ==
    [][ret'.val.op = "update_config" =>
          LET n == ret'.val.name IN
          IF n \notin DOMAIN tools
          THEN ret'.val.kind = "ToolNotFound" /\ tools' = tools /\ configs' = configs
          ELSE /\ ret'.val.kind = "ok"
               /\ tools' = tools
               /\ DOMAIN configs' = DOMAIN configs
               /\ configs'[n] = ret'.val.config
               /\ \A m \in (DOMAIN configs) \ {n} : configs'[m] = configs[m]]_vars

\* C10 witness: update_config has succeeded on one of two registered names, with a
\* descriptor that differs from the default one.
C10_Witness ==
    /\ ret.val.op = "update_config"
    /\ ret.val.kind = "ok"
    /\ Cardinality(DOMAIN tools) >= 2
    /\ configs[ret.val.name] = ret.val.config
    /\ configs[ret.val.name] # DefaultConfig(ret.val.name, tools[ret.val.name])

\* C10 second case reached: update_config has failed with ToolNotFound.
C10_NotFoundReached ==
    ret.val.op = "update_config" /\ ret.val.kind = "ToolNotFound" /\ tools # EmptyMap

\* C20 (register and get): register(name, tool) leaves get(name) = tool and the
\* descriptor {name, tool.description(), empty config, no schema} under name, whatever
\* was stored there; names get a tool by register alone, and get returns the tool
\* stored under the name, or nothing for a name never registered.
C20_RegisterAndGet ==
    [][/\ DOMAIN tools' =
             (DOMAIN tools) \cup (IF ret'.val.op = "register" THEN {ret'.val.name} ELSE {})
       /\ \A n \in DOMAIN tools :
             (ret'.val.op = "register" /\ ret'.val.name = n) \/ tools'[n] = tools[n]
       /\ ret'.val.op = "register" =>
             /\ tools'[ret'.val.name] = ret'.val.tool
             /\ configs'[ret'.val.name] =
                   [name |-> ret'.val.name,
                    description |-> IF ret'.val.tool = "TestTool"
                                    THEN "A test tool" ELSE "A simple calculator tool",
                    config |-> EmptyMap, input_schema |-> None]
       /\ ret'.val.op = "get" =>
             /\ tools' = tools
             /\ ret'.val.tool = IF ret'.val.name \in DOMAIN tools
                                THEN <<tools[ret'.val.name]>> ELSE <<>>]_vars

\* C20 witness: register has returned over a name that held another tool and a
\* descriptor stored by update_config.
C20_Witness ==
    /\ ret.val.op = "register"
    /\ ret.val.existed
    /\ ret.val.replaced = Some("custom")
    /\ ret.val.tool = "CalculatorTool"
    /\ configs[ret.val.name].description = "A simple calculator tool"

\* C26 (descriptor immutability), as claimed: the descriptor stored under a name
\* changes only in a step that returns from update_config for that name.
C26_OnlyUpdateConfigChanges ==
    [][\A n \in DOMAIN configs :
          configs'[n] # configs[n] =>
              (ret'.val.op = "update_config" /\ ret'.val.name = n)]_vars

\* C26 as the code has it: a descriptor, once stored, is never removed, and it changes
\* only in a step that returns from update_config or from register for that name.
C26_OnlyKeyedWritesChange ==
    [][/\ DOMAIN configs \subseteq DOMAIN configs'
       /\ \A n \in DOMAIN configs :
             configs'[n] # configs[n] =>
                 (ret'.val.op \in {"update_config", "register"} /\ ret'.val.name = n)]_vars

\* C26 witness: register has just replaced the descriptor that update_config had
\* stored under a name, in a registry that holds all three names.
C26_Witness ==
    /\ ret.val.op = "register"
    /\ ret.val.replaced = Some("custom")
    /\ configs[ret.val.name].description # "custom"
    /\ Cardinality(DOMAIN configs) = 3

\* ----------------------------------------------------- claims: the ToolPipeline

\* The log of a run in which every middleware calls next: the before events in
\* registration order, the tool, the after events in reverse registration order.
OnionLog(mws, tool, params) ==
    [i \in 1..(2 * Len(mws) + 1) |->
        IF i <= Len(mws) THEN BeforeEv(mws[i])
        ELSE IF i = Len(mws) + 1 THEN ToolEv(tool, params)
        ELSE AfterEv(mws[2 * Len(mws) + 2 - i])]

\* C6 (middleware ordering): when the tool is registered and every middleware calls
\* next, one execute logs m0-before .. mn-before, the tool once, mn-after .. m0-after.
C6_MiddlewareOrdering ==
    (/\ ret.val.op = "pipeline_execute"
     /\ ret.val.name \in DOMAIN tools
     /\ \A i \in 1..Len(middleware) : middleware[i].kind = "pass")
        => pipeLog = OnionLog(middleware, tools[ret.val.name], ret.val.params)

\* C6 witness: execute has returned over the chain [A, B].
C6_Witness ==
    /\ ret.val.op = "pipeline_execute"
    /\ ret.val.name \in DOMAIN tools
    /\ Len(middleware) = 2
    /\ middleware[1].name = "A"
    /\ middleware[2].name = "B"

\* C7 (unregistered tool): execute of a name that is not registered returns
\* ToolNotFound and runs no middleware body and no tool body.
C7_UnregisteredRunsNothing ==
    (ret.val.op = "pipeline_execute" /\ ret.val.name \notin DOMAIN tools)
        => /\ ret.val.outcome = Err("ToolNotFound", ret.val.name)
           /\ pipeLog = <<>>

\* C7 witness: execute of an unregistered name has returned from a pipeline that
\* holds middleware.
C7_Witness ==
    /\ ret.val.op = "pipeline_execute"
    /\ ret.val.name \notin DOMAIN tools
    /\ Len(middleware) >= 2

\* C23 (short-circuit): when the first middleware that returns without calling next
\* is the i-th of the chain, one execute of a registered tool logs the before events
\* of the first i middleware in registration order, then the after events of the
\* i - 1 before it in reverse order, and nothing else: no later middleware, no tool
\* body, nothing twice; the caller gets what that middleware returned.
C23_ShortCircuit ==
    (/\ ret.val.op = "pipeline_execute"
     /\ ret.val.name \in DOMAIN tools
     /\ \E i \in 1..Len(middleware) : middleware[i].kind = "short") =>
        LET i == CHOOSE k \in 1..Len(middleware) :
                     /\ middleware[k].kind = "short"
                     /\ \A j \in 1..(k - 1) : middleware[j].kind = "pass"
        IN  /\ Len(pipeLog) = 2 * i - 1
            /\ \A k \in 1..i : pipeLog[k] = [ev |-> "before", who |-> middleware[k].name]
            /\ \A k \in 1..(i - 1) :
                  pipeLog[i + k] = [ev |-> "after", who |-> middleware[i - k].name]
            /\ ~ret.val.outcome.ok
            /\ ret.val.outcome.error.msg = "denied by " \o middleware[i].name

\* C23 witness: execute has returned over the chain [A, Deny, B].
C23_Witness ==
    /\ ret.val.op = "pipeline_execute"
    /\ ret.val.name \in DOMAIN tools
    /\ Len(middleware) = 3
    /\ middleware[1].name = "A"
    /\ middleware[2].kind = "short"
    /\ middleware[3].name = "B"
    /\ Len(pipeLog) = 3

\* C24 (transparency): over a chain that is empty or whose middleware all return the
\* result of next, execute(name, params) of a registered tool returns what the tool
\* returns for params, and the one tool body run received params as passed.
C24_Transparency ==
    (/\ ret.val.op = "pipeline_execute"
     /\ ret.val.name \in DOMAIN tools
     /\ \A i \in 1..Len(middleware) : middleware[i].kind = "pass") =>
        LET ps == ret.val.params
            direct ==
                IF tools[ret.val.name] = "TestTool"
                THEN [ok |-> TRUE, value |-> [success |-> TRUE]]
                ELSE IF ps.b = 0
                THEN [ok |-> FALSE, error |-> [kind |-> "anyhow", msg |-> "Division by zero"]]
                ELSE [ok |-> TRUE, value |-> [result |-> ps.a \div ps.b]]
            bodies == {k \in 1..Len(pipeLog) : pipeLog[k].ev = "tool"}
        IN  /\ ret.val.outcome = direct
            /\ Cardinality(bodies) = 1
            /\ \A k \in bodies :
                  pipeLog[k].who = tools[ret.val.name] /\ pipeLog[k].params = ps

\* C24 witness: the calculator's division by zero has come back through the chain
\* [A, B] as the error the tool raised.
C24_Witness ==
    /\ ret.val.op = "pipeline_execute"
    /\ ret.val.name = "calculator"
    /\ ret.val.params.b = 0
    /\ Len(middleware) = 2
    /\ \A i \in 1..Len(middleware) : middleware[i].kind = "pass"
    /\ ret.val.outcome = Err("anyhow", "Division by zero")

\* C29 (task tracker, a plain keyed store): update_task(r) leaves r stored under
\* r.id whatever was stored there before; remove_task(id) leaves nothing under id
\* and succeeds also when id was absent; get_task(id) returns the record stored
\* under id, or nothing; each of them leaves the records of all other ids and the
\* memory map as they were.
C29_TrackerKeyedStore ==
    [][\A p \in Procs :
          /\ (pc[p] = "update_task_wait" /\ pc'[p] = "idle") =>
                /\ ret'.val.kind = "ok"
                /\ DOMAIN tasks' = (DOMAIN tasks) \cup {call[p].task.id}
                /\ tasks'[call[p].task.id] = call[p].task
                /\ \A id \in (DOMAIN tasks) \ {call[p].task.id} : tasks'[id] = tasks[id]
                /\ stMemory' = stMemory
          /\ (pc[p] = "remove_task_wait" /\ pc'[p] = "idle") =>
                /\ ret'.val.kind = "ok"
                /\ DOMAIN tasks' = (DOMAIN tasks) \ {call[p].id}
                /\ \A id \in DOMAIN tasks' : tasks'[id] = tasks[id]
                /\ stMemory' = stMemory
          /\ (pc[p] = "get_task_wait" /\ pc'[p] = "idle") =>
                /\ ret'.val.kind = "ok"
                /\ ret'.val.value = IF call[p].id \in DOMAIN tasks
                                    THEN <<tasks[call[p].id]>> ELSE <<>>
                /\ tasks' = tasks
                /\ stMemory' = stMemory]_vars

\* update_task has put a Pending record over a Completed one, beside the record of
\* another id and a memory map that is not empty.
C29_Witness ==
    /\ ret.proc \in Procs
    /\ ret.val.op = "update_task"
    /\ ret.val.before # None
    /\ ret.val.before[1].status = "Completed"
    /\ ret.val.task.status = "Pending"
    /\ tasks[ret.val.task.id] = ret.val.task
    /\ DOMAIN tasks = TaskIds
    /\ stMemory # EmptyMap

\* Caller p takes a step of one of the operations ops: it issues the call, goes on
\* with it, or returns from it.
ActsIn(p, ops) ==
    \/ /\ pc'[p] # "idle"
       /\ <<pc'[p], call'[p]>> # <<pc[p], call[p]>>
       /\ call'[p].op \in ops
    \/ /\ ret'.proc = p
       /\ ret'.val.op \in ops
MemoryStoreOps == {"add_memory", "get_memory", "search_memory", "list_memory", "clear_memory"}
StateOps == {"update_state", "snapshot", "get_task", "update_task", "remove_task"}

\* C30 (independent lock scopes): every step of a Memory Store operation leaves the
\* State (memory map, tasks, its lock) as it was and every step of a state operation
\* leaves the memory log, its lock and its file as they were; a state operation
\* waiting for the state lock can go on whenever that lock is free, whoever holds
\* the memory lock, and a Memory Store operation waiting for the memory lock can go
\* on whenever that lock is free, whoever holds the state lock.
C30_IndependentLockScopes ==
    /\ [][\A p \in Procs :
              /\ ActsIn(p, MemoryStoreOps) => UNCHANGED <<stMemory, tasks, stWriter>>
              /\ ActsIn(p, StateOps) => UNCHANGED <<memory, memWriter, disk>>]_vars
    /\ [](\A p \in Procs :
              /\ (pc[p] \in {"update_wait", "snapshot_wait", "update_task_wait",
                              "get_task_wait", "remove_task_wait"}
                   /\ stWriter = NoProc) => ENABLED SharedStateStep(p)
              /\ (pc[p] \in {"add_wait", "clear_wait", "read_wait", "search_wait"}
                   /\ memWriter = NoProc) => ENABLED SharedMemStep(p))

\* An add_memory has returned with its entry in the log while another caller holds
\* the state's write lock half way through an update_state.
C30_Witness ==
    /\ ret.proc \in Procs
    /\ ret.val.op = "add_memory"
    /\ ret.val.kind = "ok"
    /\ memory # <<>>
    /\ stWriter \in Procs \ {ret.proc}
    /\ pc[stWriter] = "update_merge"
    /\ stMemory # EmptyMap
    /\ stMemory # [k \in Keys |-> 1]

\* An update_task has returned with its record stored while another caller holds the
\* memory log's write lock.
C30_StateOpUnderMemoryLock ==
    /\ ret.proc \in Procs
    /\ ret.val.op = "update_task"
    /\ 1 \in DOMAIN tasks
    /\ memWriter \in Procs \ {ret.proc}

\* C31 (frame of execute_task): every step of an execute_task(task_id, ...) call
\* leaves the memory map, the tool registry and the records of all other task ids
\* as they were, and no step of the Agent takes a task id out of the task map.
C31_ExecuteTaskFrame ==
    [][/\ \A p \in Procs :
             (pc[p] \in {"exec_wait", "exec_tools", "exec_body", "exec_done"}
              /\ pc'[p] # pc[p]) =>
                 LET id == IF pc[p] = "exec_wait" THEN call'[p].id ELSE call[p].id IN
                 /\ stMemory' = stMemory
                 /\ tools' = tools
                 /\ configs' = configs
                 /\ \A other \in (DOMAIN tasks) \ {id} :
                        other \in DOMAIN tasks' /\ tasks'[other] = tasks[other]
       /\ (DOMAIN tasks) \subseteq (DOMAIN tasks')]_vars

\* An execute_task has returned for one id while the record of the other id and a
\* memory map that is not empty are stored.
C31_Witness ==
    /\ ret.proc \in Procs
    /\ ret.val.op = "execute_task"
    /\ ret.val.kind = "returned"
    /\ DOMAIN tasks = TaskIds
    /\ \E other \in TaskIds \ {ret.val.id} : tasks[other].status = "Failed"
    /\ tasks[ret.val.id].status = "Completed"
    /\ stMemory # EmptyMap

\* C32 (the terminal update never fails): from the insertion of its Running record
\* up to its terminal update, an execute_task call finds under its task id the very
\* record it inserted, whatever other execute_task and handle_event calls are in
\* progress and whatever task ids they use; so no execute_task ends in the panic of
\* a failed lookup.
C32_TerminalUpdateFindsRecord ==
    /\ \A p \in Procs :
          pc[p] \in {"exec_tools", "exec_body", "exec_done"} =>
              /\ call[p].id \in DOMAIN tasks
              /\ tasks[call[p].id] = [id |-> call[p].id, status |-> "Running",
                                      result |-> None, error |-> None]
    /\ ret.val.op = "execute_task" => ret.val.kind = "returned"

\* An execute_task that reused a task id is about to write its terminal status
\* while another execute_task and, before, a handle_event were issued.
C32_Witness ==
    \E p, q \in Procs :
        /\ p # q
        /\ pc[p] = "exec_done"
        /\ call[p].reused
        /\ pc[q] = "exec_wait"
        /\ stMemory # EmptyMap

\* C33 (Running is never seen through the lock): whenever the state lock is free or
\* held by a call other than execute_task, every stored task record (all of them
\* were created by execute_task) is Completed or Failed; so is every record at the
\* step in which a caller is granted the lock.
C33_RunningNeverObservable ==
    /\ [](\/ stWriter # NoProc /\ call[stWriter].op = "execute_task"
          \/ \A id \in DOMAIN tasks : tasks[id].status \in {"Completed", "Failed"})
    /\ [][(stWriter = NoProc /\ stWriter' # NoProc) =>
              \A id \in DOMAIN tasks : tasks[id].status \in {"Completed", "Failed"}]_vars

\* A handle_event holds the state write lock while both task ids have records, one
\* Completed and one Failed, and a snapshot waits for its read lock.
C33_Witness ==
    \E q, r \in Procs :
        /\ stWriter = q
        /\ pc[q] = "update_merge"
        /\ call[q].op = "handle_event"
        /\ pc[r] = "snapshot_wait"
        /\ DOMAIN tasks = TaskIds
        /\ {tasks[id].status : id \in TaskIds} = {"Completed", "Failed"}

\* C34 (liveness without deadlock): with tool bodies that run to their end and locks
\* granted fairly, every execute_task, handle_event and list_tools call issued on
\* one Agent eventually returns; a caller takes the tool registry's read lock inside
\* execute_task only while it holds the state write lock, a caller that is granted
\* the state lock holds no read lock on the registry, and list_tools never holds the
\* state lock.
C34_EveryCallReturns ==
    /\ \A p \in Procs : (pc[p] # "idle") ~> (pc[p] = "idle")
    /\ [][\A p \in Procs :
              /\ (p \notin toolsReaders /\ p \in toolsReaders') =>
                    (stWriter = p /\ call[p].op = "execute_task")
              /\ (stWriter # p /\ stWriter' = p) => p \notin toolsReaders
              /\ call[p].op = "list_tools" => (stWriter # p /\ stWriter' # p)]_vars

\* A list_tools has returned while another caller is inside a tool body, holding
\* the state write lock and a read lock on the registry.
C34_Witness ==
    /\ ret.proc \in Procs
    /\ ret.val.op = "list_tools"
    /\ \E q \in Procs \ {ret.proc} :
          /\ pc[q] = "exec_body"
          /\ stWriter = q
          /\ q \in toolsReaders

\* C35 (registry key consistency): after any sequence of register and
\* update_config calls the names with a stored descriptor are exactly the names
\* with a stored tool, and create_context(name) succeeds exactly when a tool is
\* stored under name.
C35_RegistryKeysAgree ==
    /\ DOMAIN configs = DOMAIN tools
    /\ ret.val.op = "create_context" =>
          (ret.val.context.ok <=> ret.val.name \in DOMAIN tools)
    /\ (ret.val.op = "update_config" /\ ret.val.kind = "ToolNotFound") =>
          ret.val.name \notin DOMAIN configs

\* create_context has succeeded for a name whose descriptor was replaced by
\* update_config, while another name has neither a tool nor a descriptor.
C35_Witness ==
    /\ ret.val.op = "create_context"
    /\ ret.val.context.ok
    /\ configs[ret.val.name].description = "custom"
    /\ Cardinality(DOMAIN tools) = 2

\* update_config for a name without a tool has been refused and stored nothing.
C35_RefusedWitness ==
    /\ ret.val.op = "update_config"
    /\ ret.val.kind = "ToolNotFound"
    /\ tools # EmptyMap

\* C36 (descriptor name matches its key): the descriptor stored under name n has
\* its name field equal to n, and the list list_tools returns holds no two
\* descriptors with the same name field.
C36_DescriptorNameIsKey ==
    /\ \A n \in DOMAIN configs : configs[n].name = n
    /\ ret.val.op = "list_tools" =>
          \A d \in DOMAIN ret.val.list :
              /\ ret.val.list[d] = 1
              /\ \A e \in DOMAIN ret.val.list : e.name = d.name => e = d

\* C37 (eviction is safe for every capacity, 0 included): whenever an add_memory
\* about to take the lock would take the eviction branch the log holds at least one
\* entry, and no add_memory ends in the panic of a removal from an empty log.
C37_EvictionSafe ==
    /\ \A p \in Procs :
          (pc[p] = "add_wait" /\ Len(memory) >= memory_config.capacity) => memory # <<>>
    /\ ret.val.op = "add_memory" => ret.val.kind # "panic"

\* C38 (persistent flag without a path): on a store configured persistent with no
\* persist path, add_memory and clear_memory return in the step that takes the
\* write lock, hold no lock afterwards, write no file, and leave the log as the same
\* operation leaves it on a store that is not persistent: the entry appended after
\* the oldest one is dropped when the log was at capacity, or the log emptied.
C38_PersistentWithoutPath ==
    /\ [](memory_config.persistent /\ memory_config.persist_path = "none" =>
            /\ memWriter = NoProc
            /\ disk = [exists |-> FALSE, entries |-> <<>>]
            /\ \A p \in Procs : pc[p] # "persist_wait")
    /\ [][(memory_config.persistent /\ memory_config.persist_path = "none") =>
            \A p \in Procs :
               /\ (pc[p] = "add_wait" /\ pc'[p] # "add_wait") =>
                     /\ pc'[p] = "idle"
                     /\ ret'.proc = p
                     /\ IF Len(memory) < memory_config.capacity
                        THEN ret'.val.kind = "ok" /\ memory' = Append(memory, call[p].entry)
                        ELSE IF memory # <<>>
                        THEN ret'.val.kind = "ok"
                             /\ memory' = Append(SubSeq(memory, 2, Len(memory)), call[p].entry)
                        ELSE ret'.val.kind = "panic" /\ memory' = memory
               /\ (pc[p] = "clear_wait" /\ pc'[p] # "clear_wait") =>
                     /\ pc'[p] = "idle"
                     /\ ret'.proc = p
                     /\ ret'.val.kind = "ok"
                     /\ memory' = <<>>]_vars

\* On a persistent store without a path an add_memory has returned after evicting
\* the oldest entry, and no file exists.
C38_Witness ==
    /\ memory_config.persistent
    /\ memory_config.persist_path = "none"
    /\ memory_config.capacity >= 1
    /\ ret.val.op = "add_memory"
    /\ ret.val.kind = "ok"
    /\ Len(addLog) > memory_config.capacity
    /\ Len(memory) = memory_config.capacity
    /\ memory[Len(memory)].id = ret.val.id
    /\ ~disk.exists

\* C39 (error conversion): converting an agent error that carries a string to a
\* core error or to an MCP error keeps the string and gives the kind the conversion
\* tables fix; converting an agent error to a core error and that one to an MCP
\* error always gives the MCP kind Other.
C39_ErrorConversion ==
    LET v == ret.val
        coreKind == [k \in AgentStringKinds |->
                        CASE k = "InvalidConfig" -> "Config"
                          [] k \in {"InvalidRequest", "TaskError"} -> "Agent"
                          [] k \in {"ToolNotFound", "ToolExecutionFailed"} -> "Tool"
                          [] k \in {"StateError", "MemoryError"} -> "State"]
        mcpKind == [k \in AgentStringKinds |->
                        CASE k \in {"InvalidConfig", "InvalidRequest"} -> "InvalidRequest"
                          [] k = "ToolNotFound" -> "ToolNotFound"
                          [] k = "ToolExecutionFailed" -> "ToolExecutionFailed"
                          [] k \in {"StateError", "TaskError", "MemoryError"} -> "ServerError"]
    IN  /\ (v.op = "into_core" /\ v.err.kind \in AgentStringKinds) =>
              /\ v.value.ty = "core"
              /\ v.value.kind = coreKind[v.err.kind]
              /\ v.value.msg = v.err.msg
        /\ (v.op = "into_mcp" /\ v.err.kind \in AgentStringKinds) =>
              /\ v.value.ty = "mcp"
              /\ v.value.kind = mcpKind[v.err.kind]
              /\ v.value.msg = v.err.msg
        /\ v.op = "into_core_into_mcp" =>
              /\ v.value.ty = "mcp"
              /\ v.value.kind = "Other"

\* The conversions of the crate's tests: InvalidConfig("test error") has become MCP
\* InvalidRequest("test error").
C39_Witness ==
    /\ ret.val.op = "into_mcp"
    /\ ret.val.err.kind = "InvalidConfig"
    /\ ret.val.err.msg = "test error"
    /\ ret.val.value.kind = "InvalidRequest"
    /\ ret.val.value.msg = "test error"

\* ToolExecutionFailed("test error") converted to core and then to MCP is Other.
C39_ChainWitness ==
    /\ ret.val.op = "into_core_into_mcp"
    /\ ret.val.err.kind = "ToolExecutionFailed"
    /\ ret.val.value.kind = "Other"

====
